---- MODULE Spec2Model ----
(***************************************************************************)
(* Model of the two widgets of GeoTaggerAR-notes-ar:                       *)
(*   src/src/components/WeatherForecast.tsx        (forecast aggregation   *)
(*                                                  and its fetch cycle)   *)
(*   src/src/components/SatelliteDataIndicators.tsx (history synthesis,    *)
(*                                                  trend, status)         *)
(*                                                                         *)
(* Times are Unix seconds (item.dt) and JavaScript milliseconds (Date).    *)
(* The browser's zone in WeatherForecast's format() is taken to be UTC.    *)
(***************************************************************************)
EXTENDS Integers, Sequences, FiniteSets, TLC

VARIABLES
    \* ---- forecast aggregation, run on one payload (WeatherForecast.tsx 57-104)
    samples,         \* data.list
    dailyData,       \* the date-keyed object, as its entries in insertion order
    dailyForecasts,  \* the ForecastDay[] being built
    aggPc,           \* "start" | "grouped" | "done" | "threw"
    \* ---- the WeatherForecast component (WeatherForecast.tsx 31-113)
    latitude,        \* props.latitude
    longitude,       \* props.longitude
    forecast,        \* useState<ForecastDay[]>([])
    loading,         \* useState(true)
    error,           \* useState<string | null>(null)
    calls,           \* the fetchForecast calls suspended at an await
    issued,          \* how many fetchForecast calls the effect has made
    consoleErrors,   \* the errors console.error has logged, oldest first
    \* ---- one call of calculateTrend (SatelliteDataIndicators.tsx 77-90)
    trendHistory,    \* its argument
    trendResult,     \* what it returned
    trendPc,         \* "call" | "done"
    \* ---- one call of getIndicatorStatus (57-75)
    statusName,
    statusValue,
    statusResult,
    statusPc,        \* "call" | "done"
    \* ---- one call of generateHistoricalData (34-55)
    genBase,
    genDays,
    genVariance,
    genStream,       \* what Math.random() will return
    genData,         \* what it returned
    genPc,           \* "call" | "done"
    \* ---- the SatelliteDataIndicators component (92-139) and its clock
    seed,            \* |sin(latitude * longitude)| * 1000, in hundredths
    period,          \* useState<string>("10")
    indicators,      \* the array the last render built
    today,           \* new Date(): local calendar day and wall-clock hour
    zone             \* the browser's time zone

aggVars == <<samples, dailyData, dailyForecasts, aggPc>>

fetchVars == <<latitude, longitude, forecast, loading, error, calls, issued,
               consoleErrors>>

trendVars == <<trendHistory, trendResult, trendPc>>

statusVars == <<statusName, statusValue, statusResult, statusPc>>

genVars == <<genBase, genDays, genVariance, genStream, genData, genPc>>

renderVars == <<seed, period, indicators, today, zone>>

vars == <<samples, dailyData, dailyForecasts, aggPc,
          latitude, longitude, forecast, loading, error, calls, issued,
          consoleErrors,
          trendHistory, trendResult, trendPc,
          statusName, statusValue, statusResult, statusPc,
          genBase, genDays, genVariance, genStream, genData, genPc,
          seed, period, indicators, today, zone>>

----------------------------------------------------------------------------
\* Bounds of the model

\* longest arbitrary (unordered) sample list
MaxLen == 3

\* longest day-by-day feed, in days
MaxFeedDays == 10

\* fetchForecast calls in one run of the component
MaxFetches == 2

\* longest data.list a response carries to the component
MaxPayload == 2

----------------------------------------------------------------------------
\* Small helpers

MinOf(a, b) == IF a < b THEN a ELSE b

MaxOf(a, b) == IF a > b THEN a ELSE b

SeqsUpTo(S, n) == UNION {[1..k -> S] : k \in 0..n}

----------------------------------------------------------------------------
\* Forecast aggregation: WeatherForecast.fetchForecast, lines 57-104

MsPerDay == 86400000

\* slice(0, 7)
ForecastHorizon == 7

\* format(new Date(item.dt * 1000), "yyyy-MM-dd"): the calendar day of the
\* instant, as the count of whole days since the epoch (the key's text orders
\* and compares as this number does)
DateKey(dt) == (dt * 1000) \div MsPerDay

\* new Date(dateStr): midnight UTC of that calendar day, in milliseconds
DateOfKey(key) == key * MsPerDay

\* the position of `key` among the entries, 0 when dailyData[key] is undefined
KeyIndex(entries, key) ==
    LET hits == {i \in 1..Len(entries) : entries[i].key = key}
    IN  IF hits = {} THEN 0 ELSE CHOOSE i \in hits : TRUE

\* one call of the forEach callback of lines 61-67
GroupItem(entries, item) ==
    LET key == DateKey(item.dt)
        at  == KeyIndex(entries, key)
    IN  IF at = 0
          THEN Append(entries, [key |-> key, items |-> <<item>>])
          ELSE [entries EXCEPT ![at].items = Append(@, item)]

\* lines 61-67 over data.list[i..]; an entry without a usable dt makes
\* format() throw (RangeError: Invalid time value)
RECURSIVE GroupFrom(_, _, _)
GroupFrom(list, i, entries) ==
    IF i > Len(list) THEN [threw |-> FALSE, entries |-> entries]
    ELSE IF list[i].shape = "nodt" THEN [threw |-> TRUE, entries |-> entries]
    ELSE GroupFrom(list, i + 1, GroupItem(entries, list[i]))

GroupByDay(list) == GroupFrom(list, 1, <<>>)

\* the tally of lines 77-81, as the entries of weatherCounts in insertion order
RECURSIVE CountFrom(_, _, _)
CountFrom(dayData, i, counts) ==
    IF i > Len(dayData) THEN counts
    ELSE LET w  == dayData[i].weather
             at == KeyIndex(counts, w)
         IN  CountFrom(dayData, i + 1,
                 IF at = 0 THEN Append(counts, [key |-> w, n |-> 1])
                 ELSE [counts EXCEPT ![at].n = @ + 1])

WeatherCounts(dayData) == CountFrom(dayData, 1, <<>>)

\* the reducer with >= : keeps the earlier label on a tie
PickWeatherKeepFirst(a, b) == IF a.n >= b.n THEN a ELSE b

\* the reducer of lines 82-84: weatherCounts[a] > weatherCounts[b] ? a : b
PickWeather(a, b) == IF a.n > b.n THEN a ELSE b

\* Object.keys(weatherCounts).reduce(...) without an initial value
RECURSIVE ReduceWeather(_, _, _)
ReduceWeather(counts, i, acc) ==
    IF i > Len(counts) THEN acc
    ELSE ReduceWeather(counts, i + 1, PickWeather(acc, counts[i]))

MainWeather(dayData) ==
    LET counts == WeatherCounts(dayData)
    IN  ReduceWeather(counts, 2, counts[1]).key

\* temps[0] in place of the minimum
FirstTemp(temps) == temps[1]

\* Math.min(...temps)
RECURSIVE MathMin(_)
MathMin(temps) ==
    IF Len(temps) = 1 THEN temps[1]
    ELSE MinOf(temps[1], MathMin(Tail(temps)))

\* Math.max(...temps)
RECURSIVE MathMax(_)
MathMax(temps) ==
    IF Len(temps) = 1 THEN temps[1]
    ELSE MaxOf(temps[1], MathMax(Tail(temps)))

\* dayData.map((d) => d.main.temp)
TempsOf(dayData) == [i \in 1..Len(dayData) |-> dayData[i].temp]

\* the ForecastDay pushed by lines 89-103 (date, temp, weather.main)
MakeForecastDay(entry) ==
    [date    |-> DateOfKey(entry.key),
     temp    |-> [min |-> MathMin(TempsOf(entry.items)),
                  max |-> MathMax(TempsOf(entry.items))],
     weather |-> [main |-> MainWeather(entry.items)]]

\* slice(0, 8)
SliceHorizonOffByOne(entries) == SubSeq(entries, 1, MinOf(Len(entries), ForecastHorizon + 1))

\* Object.entries(dailyData).slice(0, 7)
SliceHorizon(entries) == SubSeq(entries, 1, MinOf(Len(entries), ForecastHorizon))

\* lines 70-104 over the sliced entries[i..]; an entry without main makes
\* d.main.temp throw (TypeError) before that day is pushed
RECURSIVE CalcFrom(_, _, _)
CalcFrom(entries, i, days) ==
    IF i > Len(entries) THEN [threw |-> FALSE, days |-> days]
    ELSE IF \E k \in 1..Len(entries[i].items) : entries[i].items[k].shape = "nomain"
           THEN [threw |-> TRUE, days |-> days]
    ELSE CalcFrom(entries, i + 1, Append(days, MakeForecastDay(entries[i])))

CalcDaily(entries) == CalcFrom(SliceHorizon(entries), 1, <<>>)

\* lines 57-104 as a whole: threw, and the dailyForecasts built so far
AggregateForecast(list) ==
    LET g == GroupByDay(list)
    IN  IF g.threw THEN [threw |-> TRUE, days |-> <<>>]
        ELSE CalcDaily(g.entries)

----------------------------------------------------------------------------
\* Payloads

Temps == {5, 20}

Labels == {"Rain", "Clear", "Clouds"}

\* dt of the sample at `hour` of day `day`
DtAt(day, hour) == day * 86400 + hour * 3600

Item(dt, temp, w, shape) == [dt |-> dt, temp |-> temp, weather |-> w, shape |-> shape]

ShortDts == {DtAt(1, 0), DtAt(1, 21), DtAt(2, 9)}

ShortItems == {Item(dt, t, w, "ok") : dt \in ShortDts, t \in Temps, w \in Labels}

\* every list of at most MaxLen well-formed samples, in any order
ShortLists == SeqsUpTo(ShortItems, MaxLen)

PerDayCounts == {1, 2}

\* a feed of n days with perDay samples a day (3 hours apart), the days
\* ascending, or descending when desc
Feed(n, perDay, desc, t, w) ==
    [i \in 1..(n * perDay) |->
        LET d == ((i - 1) \div perDay) + 1
            h == ((i - 1) % perDay) * 3
        IN  Item(DtAt(IF desc THEN n + 1 - d ELSE d, h), t, w, "ok")]

Feeds ==
    {Feed(n, p, desc, t, w) : n \in 0..MaxFeedDays, p \in PerDayCounts,
                              desc \in BOOLEAN, t \in Temps, w \in Labels}

\* a feed, alone or followed by one more sample of any of the short days
FeedLists == Feeds \cup {Append(f, it) : f \in Feeds, it \in ShortItems}

InputLists == ShortLists \cup FeedLists

----------------------------------------------------------------------------
\* The aggregation run step by step on one payload

\* lines 61-67
GroupStep ==
    /\ aggPc = "start"
    /\ LET g == GroupByDay(samples)
       IN  /\ dailyData' = g.entries
           /\ aggPc' = IF g.threw THEN "threw" ELSE "grouped"
    /\ UNCHANGED <<samples, dailyForecasts>>
    /\ UNCHANGED <<fetchVars, trendVars, statusVars, genVars, renderVars>>

\* lines 70-104
CalcStep ==
    /\ aggPc = "grouped"
    /\ LET c == CalcDaily(dailyData)
       IN  /\ dailyForecasts' = c.days
           /\ aggPc' = IF c.threw THEN "threw" ELSE "done"
    /\ UNCHANGED <<samples, dailyData>>
    /\ UNCHANGED <<fetchVars, trendVars, statusVars, genVars, renderVars>>

----------------------------------------------------------------------------
\* The WeatherForecast component: WeatherForecast.tsx, lines 31-113

ErrorText == "Unable to load weather forecast"

NoError == "null"

Coords == {<<41, 2>>, <<48, 11>>}

\* the temperatures the service of line 47 forecasts at lat, lon: no two
\* places share one
LocalTemps(lat, lon) == IF <<lat, lon>> = <<41, 2>> THEN {12, 18} ELSE {3, 9}

\* what a response to the request of line 47 for lat, lon can carry in data.list
PayloadItems(lat, lon) ==
    {Item(dt, t, "Rain", "ok") : dt \in {DtAt(1, 0), DtAt(2, 9)}, t \in LocalTemps(lat, lon)}
      \cup {Item(DtAt(1, 0), 0, "Rain", "nodt")}
      \cup {Item(dt, 0, "Rain", "nomain") : dt \in {DtAt(1, 0), DtAt(2, 9)}}

\* response.json(): not JSON at all, JSON without a list, JSON with a list
Bodies(lat, lon) ==
    {[kind |-> "badjson", list |-> <<>>], [kind |-> "nolist", list |-> <<>>]}
      \cup {[kind |-> "list", list |-> l] : l \in SeqsUpTo(PayloadItems(lat, lon), MaxPayload)}

\* what the throw that ends the try block carries, by where it is thrown
ThrownBy(body) ==
    IF body.kind = "badjson" THEN "SyntaxError: response.json()"
    ELSE IF body.kind = "nolist" THEN "TypeError: data.list is undefined"
    ELSE IF GroupByDay(body.list).threw THEN "RangeError: Invalid time value"
    ELSE "TypeError: d.main is undefined"

\* lines 40-48: fetchForecast up to its first await, for the props lat, lon
StartFetch(lat, lon) ==
    /\ loading' = TRUE
    /\ error' = NoError
    /\ calls' = calls \cup {[id |-> issued + 1, lat |-> lat, lon |-> lon, pc |-> "fetch"]}
    /\ issued' = issued + 1
    /\ UNCHANGED <<forecast, consoleErrors>>

\* lines 36-38: the effect's first run, after the first render
Mount ==
    /\ issued = 0
    /\ StartFetch(latitude, longitude)
    /\ UNCHANGED <<latitude, longitude>>
    /\ UNCHANGED <<aggVars, trendVars, statusVars, genVars, renderVars>>

\* lines 36-38: the parent passes new coordinates and the effect runs again
ChangeLocation ==
    /\ issued >= 1
    /\ issued < MaxFetches
    /\ \E c \in Coords :
          /\ c # <<latitude, longitude>>
          /\ latitude' = c[1]
          /\ longitude' = c[2]
          /\ StartFetch(c[1], c[2])
    /\ UNCHANGED <<aggVars, trendVars, statusVars, genVars, renderVars>>

\* the forecast state after a throw, with the days the loop had pushed: the
\* days are stored all the same
ForecastKeepsPartial(old, partial) == partial

\* the forecast state after a throw, with the days the loop had pushed:
\* line 106 is never reached, the state is left as it was
ForecastAfterThrow(old, partial) == old

\* lines 107-112: catch and finally, for call c
Catch(c, err, partial) ==
    /\ forecast' = ForecastAfterThrow(forecast, partial)
    /\ error' = ErrorText
    /\ consoleErrors' = Append(consoleErrors, err)
    /\ loading' = FALSE
    /\ calls' = calls \ {c}
    /\ UNCHANGED <<latitude, longitude, issued>>

\* line 46: fetch() rejects (no network)
FetchRejected ==
    /\ \E c \in calls :
          /\ c.pc = "fetch"
          /\ Catch(c, "TypeError: Failed to fetch", <<>>)
    /\ UNCHANGED <<aggVars, trendVars, statusVars, genVars, renderVars>>

\* lines 46-52: fetch() resolves; a response that is not ok throws
FetchResponded ==
    /\ \E c \in calls, ok \in BOOLEAN :
          /\ c.pc = "fetch"
          /\ IF ok
               THEN /\ calls' = (calls \ {c}) \cup {[c EXCEPT !.pc = "json"]}
                    /\ UNCHANGED <<latitude, longitude, forecast, loading, error,
                                   issued, consoleErrors>>
               ELSE Catch(c, "Error: Failed to fetch weather data", <<>>)
    /\ UNCHANGED <<aggVars, trendVars, statusVars, genVars, renderVars>>

\* lines 54-112: response.json() settles, the list is aggregated and stored
JsonSettled ==
    /\ \E c \in calls :
        \E body \in Bodies(c.lat, c.lon) :
          /\ c.pc = "json"
          /\ LET a == IF body.kind = "list" THEN AggregateForecast(body.list)
                      ELSE [threw |-> TRUE, days |-> <<>>]
             IN  IF a.threw
                   THEN Catch(c, ThrownBy(body), a.days)
                   ELSE /\ forecast' = a.days
                        /\ loading' = FALSE
                        /\ calls' = calls \ {c}
                        /\ UNCHANGED <<latitude, longitude, error, issued, consoleErrors>>
    /\ UNCHANGED <<aggVars, trendVars, statusVars, genVars, renderVars>>



----------------------------------------------------------------------------
\* JavaScript numbers, as far as calculateTrend needs them: a finite number is
\* the exact fraction n/d in lowest terms (d > 0; rounding to the nearest
\* double is left out),
\* beside NaN and the two infinities (n = 1, n = -1).

RECURSIVE Gcd(_, _)
Gcd(a, b) == IF b = 0 THEN a ELSE Gcd(b, a % b)

\* the finite number n/d, in lowest terms
Num(n, d) ==
    LET g == Gcd(IF n < 0 THEN -n ELSE n, d)
    IN  [k |-> "fin", n |-> n \div g, d |-> d \div g]

NaN == [k |-> "nan", n |-> 0, d |-> 1]

Infinity(sign) == [k |-> "inf", n |-> sign, d |-> 1]

Sign(n) == IF n > 0 THEN 1 ELSE IF n < 0 THEN -1 ELSE 0

Abs(n) == IF n < 0 THEN -n ELSE n

\* x + y, both finite
JsAdd(x, y) == Num(x.n * y.d + y.n * x.d, x.d * y.d)

\* x - y
JsSub(x, y) ==
    IF x.k = "nan" \/ y.k = "nan" THEN NaN
    ELSE IF x.k = "inf" /\ y.k = "inf" THEN (IF x.n = y.n THEN NaN ELSE x)
    ELSE IF x.k = "inf" THEN x
    ELSE IF y.k = "inf" THEN Infinity(-y.n)
    ELSE Num(x.n * y.d - y.n * x.d, x.d * y.d)

\* x * y
JsMul(x, y) ==
    IF x.k = "nan" \/ y.k = "nan" THEN NaN
    ELSE IF x.k = "inf" \/ y.k = "inf"
           THEN (IF Sign(x.n) * Sign(y.n) = 0 THEN NaN ELSE Infinity(Sign(x.n) * Sign(y.n)))
    ELSE Num(x.n * y.n, x.d * y.d)

\* x / y: 0/0 is NaN, a nonzero number over 0 is an infinity
JsDiv(x, y) ==
    IF x.k = "nan" \/ y.k = "nan" THEN NaN
    ELSE IF x.k = "inf" /\ y.k = "inf" THEN NaN
    ELSE IF x.k = "inf" THEN Infinity(x.n * (IF y.n < 0 THEN -1 ELSE 1))
    ELSE IF y.k = "inf" THEN Num(0, 1)
    ELSE IF y.n = 0 THEN (IF x.n = 0 THEN NaN ELSE Infinity(Sign(x.n)))
    ELSE Num(x.n * y.d * Sign(y.n), x.d * Abs(y.n))

\* Math.abs(x)
MathAbs(x) == IF x.k = "nan" THEN NaN ELSE [x EXCEPT !.n = Abs(@)]

\* x < y for a finite y; false when x is NaN
JsLess(x, y) ==
    IF x.k = "nan" THEN FALSE
    ELSE IF x.k = "inf" THEN x.n < 0
    ELSE x.n * y.d < y.n * x.d

\* x > y for a finite y; false when x is NaN
JsGreater(x, y) ==
    IF x.k = "nan" THEN FALSE
    ELSE IF x.k = "inf" THEN x.n > 0
    ELSE x.n * y.d > y.n * x.d

\* array.slice(start, end), negative indices counted from the end
JsSlice(s, start, end) ==
    LET from == IF start < 0 THEN MaxOf(Len(s) + start, 0) ELSE MinOf(start, Len(s))
        to   == IF end < 0 THEN MaxOf(Len(s) + end, 0) ELSE MinOf(end, Len(s))
    IN  IF from >= to THEN <<>> ELSE SubSeq(s, from + 1, to)

----------------------------------------------------------------------------
\* SatelliteDataIndicators.tsx: calculateTrend, lines 77-90.
\* A DataPoint's value is a number of two decimals, kept in hundredths.

Hundredths == 100

\* points.reduce((sum, d) => sum + d.value, 0)
RECURSIVE SumValues(_)
SumValues(points) ==
    IF points = <<>> THEN Num(0, 1)
    ELSE JsAdd(Num(points[1].value, Hundredths), SumValues(Tail(points)))

\* reduce(...) / points.length
Average(points) == JsDiv(SumValues(points), Num(Len(points), 1))

\* lines 88-89
TrendOfChange(change) ==
    IF JsLess(MathAbs(change), Num(2, 1)) THEN [trend |-> "stable", change |-> Num(0, 1)]
    ELSE [trend  |-> IF JsGreater(change, Num(0, 1)) THEN "up" ELSE "down",
          change |-> MathAbs(change)]

calculateTrend(history) ==
    IF Len(history) < 2 THEN [trend |-> "stable", change |-> Num(0, 1)]
    ELSE LET recent    == JsSlice(history, -3, Len(history))
             older     == JsSlice(history, -6, -3)
             recentAvg == Average(recent)
             olderAvg  == Average(older)
             change    == JsMul(JsDiv(JsSub(recentAvg, olderAvg), olderAvg), Num(100, 1))
         IN  TrendOfChange(change)

----------------------------------------------------------------------------
\* SatelliteDataIndicators.tsx: getIndicatorStatus, lines 57-75.
\* value is in hundredths: 0.6 is 60, 30 is 3000.

\* NDVI with > 0.6 in place of >= 0.6
NdviStatusStrict(value) ==
    IF value > 60 THEN "good"
    ELSE IF value >= 40 THEN "warning"
    ELSE "poor"

\* lines 62-64
NdviStatus(value) ==
    IF value >= 60 THEN "good"
    ELSE IF value >= 40 THEN "warning"
    ELSE "poor"

getIndicatorStatus(name, value) ==
    IF name = "NDVI" THEN NdviStatus(value)
    ELSE IF name = "Soil Moisture" THEN
        IF value >= 3000 /\ value <= 5000 THEN "good"
        ELSE IF value >= 2000 /\ value <= 6000 THEN "warning"
        ELSE "poor"
    ELSE IF name = "Temperature" THEN
        IF value >= 1500 /\ value <= 2500 THEN "good"
        ELSE IF value >= 1000 /\ value <= 3000 THEN "warning"
        ELSE "poor"
    ELSE "good"

----------------------------------------------------------------------------
\* SatelliteDataIndicators.tsx: generateHistoricalData, lines 34-55.
\* baseValue and variance are in ten-thousandths, a DataPoint's value in
\* hundredths and its date the count of whole days since the epoch (the text
\* YYYY-MM-DD orders and steps as this number does).  The clock is `today`
\* (local calendar day and wall-clock hour) in a time zone whose UTC offset,
\* in hours, changes once, at local day atDay, hour atHour.

\* getTimezoneOffset() at local day, hour (in hours east of UTC)
UtcOffset(tz, day, hour) ==
    IF day > tz.atDay \/ (day = tz.atDay /\ hour >= tz.atHour)
      THEN tz.after ELSE tz.before

\* date.toISOString().split("T")[0] of the local day, hour: the UTC calendar day
IsoDate(tz, day, hour) == (day * 24 + hour - UtcOffset(tz, day, hour)) \div 24

\* value.toFixed(digits), value in ten-thousandths, as hundredths
ToFixed(value, digits) ==
    IF digits = 2 THEN (value + 50) \div 100
    ELSE ((value + 500) \div 1000) * 10

\* Math.random() takes the values draw / RandomSteps, draw in 0..RandomSteps-1
RandomSteps == 4

RandomDraws == 0..(RandomSteps - 1)

\* the k-th draw of a stream <<a, b>>: a, b, a, b, ...
Draw(stream, k) == IF k % 2 = 1 THEN stream[1] ELSE stream[2]

\* (Math.random() - 0.5) * variance
RandomChange(draw, variance) == (draw * variance) \div RandomSteps - variance \div 2

\* line 46: Math.max(0, baseValue + randomChange)
ValueFloored(baseValue, change) == MaxOf(0, baseValue + change)

\* the DataPoint pushed for loop index i (lines 43-51), drawing draw
DataPointAt(baseValue, variance, now, tz, i, draw) ==
    [date  |-> IsoDate(tz, now.day - i, now.hour),
     value |-> ToFixed(ValueFloored(baseValue, RandomChange(draw, variance)), 2)]

\* the loop of lines 42-52: i from days - 1 down to 0; the k-th point pushed
\* has i = days - k and takes draw number first + k of the stream
generateHistoricalData(baseValue, days, variance, now, tz, stream, first) ==
    [k \in 1..days |->
        DataPointAt(baseValue, variance, now, tz, days - k, Draw(stream, first + k))]

----------------------------------------------------------------------------
\* SatelliteDataIndicators.tsx: the component body, lines 92-139.
\* seedOf is |sin(latitude * longitude)| * 1000, in hundredths.

\* parseInt(period), period one of the Select's values (lines 185-188)
ParseInt(p) ==
    CASE p = "7" -> 7 [] p = "10" -> 10 [] p = "14" -> 14 [] p = "30" -> 30

Periods == {"7", "10", "14", "30"}

\* lines 97-99, in ten-thousandths
NdviBase(seedOf) == 5500 + (seedOf % 2000)

MoistureBase(seedOf) == 300000 + (seedOf % 2000) * 100

TempBase(seedOf) == 180000 + (seedOf % 1000) * 100

\* line 138: the status of an indicator
StatusOf(name, current, hist) == getIndicatorStatus(name, current)

\* one entry of `indicators` after the forEach of lines 134-139
Indicator(name, current, hist) ==
    [name    |-> name,
     current |-> current,
     history |-> hist,
     trend   |-> calculateTrend(hist).trend,
     change  |-> calculateTrend(hist).change,
     status  |-> StatusOf(name, current, hist)]

\* lines 103-139
RenderIndicators(seedOf, p, now, tz, stream) ==
    LET days == ParseInt(p)
    IN  << Indicator("NDVI", ToFixed(NdviBase(seedOf), 2),
               generateHistoricalData(NdviBase(seedOf), days, 1000, now, tz, stream, 0)),
           Indicator("Soil Moisture", ToFixed(MoistureBase(seedOf), 1),
               generateHistoricalData(MoistureBase(seedOf), days, 50000, now, tz, stream, days)),
           Indicator("Temperature", ToFixed(TempBase(seedOf), 1),
               generateHistoricalData(TempBase(seedOf), days, 30000, now, tz, stream, 2 * days)) >>

----------------------------------------------------------------------------
\* Inputs of the indicator functions

TrendValues == {0, 100, 101, 150}

\* longest history handed to calculateTrend
MaxHistory == 7

\* the histories of at most MaxHistory points, one a day
TrendHistories ==
    {[i \in 1..Len(vs) |-> [date |-> i, value |-> vs[i]]] : vs \in SeqsUpTo(TrendValues, MaxHistory)}

NoTrend == [trend |-> "none", change |-> NaN]

StatusNames == {"NDVI", "Soil Moisture", "Temperature", "Rainfall"}

\* around every threshold of the table, in hundredths
StatusValues ==
    {v + e : v \in {0, 40, 60, 1000, 1500, 2000, 2500, 3000, 5000, 6000}, e \in {-1, 0, 1}}

Streams == RandomDraws \X RandomDraws

\* <<baseValue, variance>>, in ten-thousandths
GenParams == {<<5500, 1000>>, <<200, 1000>>, <<300000, 50000>>, <<0, 30000>>}

GenDays == {7, 10, 14, 30}

Seeds == {0, 499, 70700, 70710}

Utc == [before |-> 0, after |-> 0, atDay |-> 0, atHour |-> 0]

\* UTC, UTC-5, UTC+2, and UTC+1 with summer time (UTC+2) starting or ending
\* on the day before `today`
Zones ==
    {Utc,
     [before |-> -5, after |-> -5, atDay |-> 0, atHour |-> 0],
     [before |-> 2, after |-> 2, atDay |-> 0, atHour |-> 0],
     [before |-> 1, after |-> 2, atDay |-> 20541, atHour |-> 2],
     [before |-> 2, after |-> 1, atDay |-> 20541, atHour |-> 3]}

Clocks == {[day |-> 20542, hour |-> h] : h \in {0, 1, 12, 23}}

----------------------------------------------------------------------------
\* The indicator functions, each applied to its arguments

\* lines 77-90
TrendStep ==
    /\ trendPc = "call"
    /\ trendResult' = calculateTrend(trendHistory)
    /\ trendPc' = "done"
    /\ UNCHANGED <<trendHistory, aggVars, fetchVars, statusVars, genVars, renderVars>>

\* lines 57-75
StatusStep ==
    /\ statusPc = "call"
    /\ statusResult' = getIndicatorStatus(statusName, statusValue)
    /\ statusPc' = "done"
    /\ UNCHANGED <<statusName, statusValue, aggVars, fetchVars, trendVars, genVars, renderVars>>

\* lines 34-55
GenerateStep ==
    /\ genPc = "call"
    /\ genData' = generateHistoricalData(genBase, genDays, genVariance, today, zone, genStream, 0)
    /\ genPc' = "done"
    /\ UNCHANGED <<genBase, genDays, genVariance, genStream,
                   aggVars, fetchVars, trendVars, statusVars, renderVars>>

\* lines 93, 181: the Select sets the period and the component renders again
SetPeriod ==
    /\ indicators # <<>>
    /\ \E p \in Periods, st \in Streams :
          /\ p # period
          /\ period' = p
          /\ indicators' = RenderIndicators(seed, p, today, zone, st)
    /\ UNCHANGED <<seed, today, zone, aggVars, fetchVars, trendVars, statusVars, genVars>>

----------------------------------------------------------------------------
\* Specifications

\* one payload, about to be aggregated
InitAgg ==
    /\ samples \in InputLists
    /\ dailyData = <<>>
    /\ dailyForecasts = <<>>
    /\ aggPc = "start"
    /\ latitude = 0
    /\ longitude = 0
    /\ forecast = <<>>
    /\ loading = TRUE
    /\ error = NoError
    /\ calls = {}
    /\ issued = 0
    /\ consoleErrors = <<>>
    /\ trendHistory = <<>>
    /\ trendResult = NoTrend
    /\ trendPc = "idle"
    /\ statusName = ""
    /\ statusValue = 0
    /\ statusResult = ""
    /\ statusPc = "idle"
    /\ genBase = 0
    /\ genDays = 0
    /\ genVariance = 0
    /\ genStream = <<0, 0>>
    /\ genData = <<>>
    /\ genPc = "idle"
    /\ seed = 0
    /\ period = "10"
    /\ indicators = <<>>
    /\ today = [day |-> 0, hour |-> 0]
    /\ zone = Utc

SpecAgg == InitAgg /\ [][GroupStep \/ CalcStep]_vars

\* WeatherForecast after its first render, before its effect has run
InitForecast ==
    /\ samples = <<>>
    /\ dailyData = <<>>
    /\ dailyForecasts = <<>>
    /\ aggPc = "idle"
    /\ \E c \in Coords : latitude = c[1] /\ longitude = c[2]
    /\ forecast = <<>>
    /\ loading = TRUE
    /\ error = NoError
    /\ calls = {}
    /\ issued = 0
    /\ consoleErrors = <<>>
    /\ trendHistory = <<>>
    /\ trendResult = NoTrend
    /\ trendPc = "idle"
    /\ statusName = ""
    /\ statusValue = 0
    /\ statusResult = ""
    /\ statusPc = "idle"
    /\ genBase = 0
    /\ genDays = 0
    /\ genVariance = 0
    /\ genStream = <<0, 0>>
    /\ genData = <<>>
    /\ genPc = "idle"
    /\ seed = 0
    /\ period = "10"
    /\ indicators = <<>>
    /\ today = [day |-> 0, hour |-> 0]
    /\ zone = Utc

SpecForecast ==
    InitForecast /\ [][Mount \/ ChangeLocation \/ FetchRejected \/ FetchResponded \/ JsonSettled]_vars

\* one history, about to be handed to calculateTrend
InitTrend ==
    /\ samples = <<>>
    /\ dailyData = <<>>
    /\ dailyForecasts = <<>>
    /\ aggPc = "idle"
    /\ latitude = 0
    /\ longitude = 0
    /\ forecast = <<>>
    /\ loading = TRUE
    /\ error = NoError
    /\ calls = {}
    /\ issued = 0
    /\ consoleErrors = <<>>
    /\ trendHistory \in TrendHistories
    /\ trendResult = NoTrend
    /\ trendPc = "call"
    /\ statusName = ""
    /\ statusValue = 0
    /\ statusResult = ""
    /\ statusPc = "idle"
    /\ genBase = 0
    /\ genDays = 0
    /\ genVariance = 0
    /\ genStream = <<0, 0>>
    /\ genData = <<>>
    /\ genPc = "idle"
    /\ seed = 0
    /\ period = "10"
    /\ indicators = <<>>
    /\ today = [day |-> 0, hour |-> 0]
    /\ zone = Utc

SpecTrend == InitTrend /\ [][TrendStep]_vars

\* either one name and value about to be handed to getIndicatorStatus, or
\* SatelliteDataIndicators after its first render
InitStatus ==
    /\ samples = <<>>
    /\ dailyData = <<>>
    /\ dailyForecasts = <<>>
    /\ aggPc = "idle"
    /\ latitude = 0
    /\ longitude = 0
    /\ forecast = <<>>
    /\ loading = TRUE
    /\ error = NoError
    /\ calls = {}
    /\ issued = 0
    /\ consoleErrors = <<>>
    /\ trendHistory = <<>>
    /\ trendResult = NoTrend
    /\ trendPc = "idle"
    /\ genBase = 0
    /\ genDays = 0
    /\ genVariance = 0
    /\ genStream = <<0, 0>>
    /\ genData = <<>>
    /\ genPc = "idle"
    /\ period = "10"
    /\ today = [day |-> 20542, hour |-> 12]
    /\ zone = Utc
    /\ \/ /\ statusName \in StatusNames
          /\ statusValue \in StatusValues
          /\ statusResult = ""
          /\ statusPc = "call"
          /\ seed = 0
          /\ indicators = <<>>
       \/ /\ statusName = ""
          /\ statusValue = 0
          /\ statusResult = ""
          /\ statusPc = "idle"
          /\ seed \in Seeds
          /\ \E st \in Streams : indicators = RenderIndicators(seed, period, today, zone, st)

SpecStatus == InitStatus /\ [][StatusStep \/ SetPeriod]_vars

\* one call of generateHistoricalData, at some hour in some time zone
InitHistory ==
    /\ samples = <<>>
    /\ dailyData = <<>>
    /\ dailyForecasts = <<>>
    /\ aggPc = "idle"
    /\ latitude = 0
    /\ longitude = 0
    /\ forecast = <<>>
    /\ loading = TRUE
    /\ error = NoError
    /\ calls = {}
    /\ issued = 0
    /\ consoleErrors = <<>>
    /\ trendHistory = <<>>
    /\ trendResult = NoTrend
    /\ trendPc = "idle"
    /\ statusName = ""
    /\ statusValue = 0
    /\ statusResult = ""
    /\ statusPc = "idle"
    /\ \E q \in GenParams : genBase = q[1] /\ genVariance = q[2]
    /\ genDays \in GenDays
    /\ genStream \in Streams
    /\ genData = <<>>
    /\ genPc = "call"
    /\ seed = 0
    /\ period = "10"
    /\ indicators = <<>>
    /\ today \in Clocks
    /\ zone \in Zones

SpecHistory == InitHistory /\ [][GenerateStep]_vars

----------------------------------------------------------------------------
\* What the payload says, read off data.list directly

SampleDates == {DateKey(samples[i].dt) : i \in 1..Len(samples)}

\* the samples of calendar day d, in arrival order
SamplesOf(d) == SelectSeq(samples, LAMBDA s : DateKey(s.dt) = d)

\* where day d is first seen in data.list
FirstSeen(d) ==
    CHOOSE i \in 1..Len(samples) :
        /\ DateKey(samples[i].dt) = d
        /\ \A j \in 1..(i - 1) : DateKey(samples[j].dt) # d

\* d is the RankOf(d)-th distinct day of data.list
RankOf(d) == Cardinality({e \in SampleDates : FirstSeen(e) < FirstSeen(d)}) + 1

DayOf(day) == day.date \div MsPerDay

LabelCount(S, w) == Cardinality({k \in 1..Len(S) : S[k].weather = w})

\* the labels with the highest count among the samples S
TopLabels(S) ==
    {w \in Labels : /\ LabelCount(S, w) > 0
                    /\ \A v \in Labels : LabelCount(S, v) <= LabelCount(S, w)}

LabelFirstSeen(S, w) == CHOOSE k \in 1..Len(S) :
    S[k].weather = w /\ \A j \in 1..(k - 1) : S[j].weather # w

----------------------------------------------------------------------------
\* Claims about the aggregation (SpecAgg)

\* C2: for every sample list, also an unsorted one, the ForecastDay list is
\* ordered ascending by date, each date strictly later than the one before.
C2_AscendingByDate ==
    aggPc = "done" =>
        \A i \in 1..(Len(dailyForecasts) - 1) :
            dailyForecasts[i].date < dailyForecasts[i + 1].date

\* C3: with D distinct calendar dates the aggregation emits min(D, 7) days,
\* the i-th being the i-th distinct date in first-seen order, no date twice,
\* each built from all samples of its date; with 10 or more dates it emits 7.
C3_FirstSevenDistinctDays ==
    aggPc = "done" =>
        /\ Len(dailyForecasts) = MinOf(Cardinality(SampleDates), 7)
        /\ Cardinality(SampleDates) >= 10 => Len(dailyForecasts) = 7
        /\ \A i \in 1..Len(dailyForecasts) :
              LET day == dailyForecasts[i]
                  d   == DayOf(day)
              IN  /\ day.date = DateOfKey(d)
                  /\ d \in SampleDates
                  /\ RankOf(d) = i
                  /\ dailyData[i].key = d
                  /\ dailyData[i].items = SamplesOf(d)
                  /\ \A k \in 1..Len(SamplesOf(d)) :
                        /\ day.temp.min <= SamplesOf(d)[k].temp
                        /\ day.temp.max >= SamplesOf(d)[k].temp
        /\ \A i, j \in 1..Len(dailyForecasts) :
              i # j => dailyForecasts[i].date # dailyForecasts[j].date

\* C3's case: ten or more dates cut to seven, with a sample of an emitted date
\* arriving after samples of other dates
C3_Witness ==
    /\ aggPc = "done"
    /\ Cardinality(SampleDates) >= 10
    /\ Len(dailyForecasts) = 7
    /\ \E i \in 1..Len(dailyForecasts) :
          /\ Len(dailyData[i].items) > 1
          /\ FirstSeen(dailyData[i].key) + Len(dailyData[i].items) <= Len(samples)
          /\ DateKey(samples[Len(samples)].dt) = dailyData[i].key

\* C4 as stated: the dominant condition has the highest count among the day's
\* labels, and on a tie it is the first of the tied labels in first-seen order.
C4_TieKeepsFirst ==
    aggPc = "done" =>
        \A i \in 1..Len(dailyForecasts) :
            LET S == SamplesOf(DayOf(dailyForecasts[i]))
                m == dailyForecasts[i].weather.main
            IN  /\ m \in TopLabels(S)
                /\ \A w \in TopLabels(S) : LabelFirstSeen(S, m) <= LabelFirstSeen(S, w)

\* C4 amended: the dominant condition has the highest count among the day's
\* labels, and on a tie it is the last of the tied labels in first-seen order.
C4_TieKeepsLast ==
    aggPc = "done" =>
        \A i \in 1..Len(dailyForecasts) :
            LET S == SamplesOf(DayOf(dailyForecasts[i]))
                m == dailyForecasts[i].weather.main
            IN  /\ m \in TopLabels(S)
                /\ \A w \in TopLabels(S) : LabelFirstSeen(S, m) >= LabelFirstSeen(S, w)

\* C4's case: a day whose three samples carry three labels, all tied
C4_Witness ==
    /\ aggPc = "done"
    /\ \E i \in 1..Len(dailyForecasts) :
          LET S == SamplesOf(DayOf(dailyForecasts[i]))
          IN  /\ Cardinality(TopLabels(S)) = 3
              /\ dailyForecasts[i].weather.main = S[3].weather

\* C10: every emitted day has temp.min the minimum and temp.max the maximum
\* temperature of its (non-empty) sample group, so min <= max, and min = max
\* for a group of one.
C10_TempRange ==
    aggPc = "done" =>
        \A i \in 1..Len(dailyForecasts) :
            LET S   == SamplesOf(DayOf(dailyForecasts[i]))
                day == dailyForecasts[i]
            IN  /\ Len(S) >= 1
                /\ \E k \in 1..Len(S) : day.temp.min = S[k].temp
                /\ \E k \in 1..Len(S) : day.temp.max = S[k].temp
                /\ \A k \in 1..Len(S) : day.temp.min <= S[k].temp /\ S[k].temp <= day.temp.max
                /\ day.temp.min <= day.temp.max
                /\ Len(S) = 1 => day.temp.min = day.temp.max

\* C10's case: a day whose minimum is not its first sample, beside a day of
\* one sample
C10_Witness ==
    /\ aggPc = "done"
    /\ \E i, j \in 1..Len(dailyForecasts) :
          /\ Len(dailyData[i].items) = 2
          /\ dailyForecasts[i].temp.min < dailyData[i].items[1].temp
          /\ dailyForecasts[i].temp.max > dailyForecasts[i].temp.min
          /\ Len(dailyData[j].items) = 1
          /\ dailyForecasts[j].temp.min = dailyForecasts[j].temp.max

----------------------------------------------------------------------------
\* Claims about the WeatherForecast component (SpecForecast)

\* C1: when two fetchForecast calls overlap, the response for the older
\* coordinates never overwrites the state set for the newer request: once every
\* call has settled, a forecast on display without an error is the one
\* produced for the coordinates issued last.
C1_LatestRequestWins ==
    (issued >= 1 /\ calls = {} /\ error = NoError) =>
        \A i \in 1..Len(forecast) :
            forecast[i].temp.min \in LocalTemps(latitude, longitude)

\* C9: when the fetch returns no usable payload (a response that is not ok, a
\* missing or malformed list, an entry that makes the aggregation throw
\* part-way through), the forecast state is not updated, not even with the days
\* aggregated so far, the error state is set and loading is cleared.
C9_NoPartialOnFailure ==
    [][Len(consoleErrors') > Len(consoleErrors) =>
          /\ forecast' = forecast
          /\ error' = ErrorText
          /\ loading' = FALSE]_vars

\* C9's case: an earlier forecast is on display and a later payload has made
\* the aggregation throw in the per-day loop
C9_Witness ==
    /\ consoleErrors # <<>>
    /\ consoleErrors[Len(consoleErrors)] = "TypeError: d.main is undefined"
    /\ forecast # <<>>
    /\ error = ErrorText
    /\ loading = FALSE

\* C11: loading is true while any forecast request is still in flight; it
\* becomes false only when no issued fetchForecast call remains unresolved,
\* also when a second request was issued before the first one completed.
C11_LoadingWhileInFlight == calls # {} => loading = TRUE

----------------------------------------------------------------------------
\* Claims about calculateTrend (SpecTrend)

RECURSIVE TotalAt(_)
\* the sum of the values at the positions P of trendHistory, in hundredths
TotalAt(P) ==
    IF P = {} THEN 0
    ELSE LET i == CHOOSE x \in P : TRUE
         IN  trendHistory[i].value + TotalAt(P \ {i})

\* the positions of the last 3 points, and of the up to 3 before them
RecentAt == {i \in 1..Len(trendHistory) : i > Len(trendHistory) - 3}

OlderAt == {i \in 1..Len(trendHistory) :
                i > Len(trendHistory) - 6 /\ i <= Len(trendHistory) - 3}

\* percentChange = PercentNum / PercentDen wherever the older mean is not 0
PercentNum ==
    100 * (TotalAt(RecentAt) * Cardinality(OlderAt) - TotalAt(OlderAt) * Cardinality(RecentAt))

PercentDen == TotalAt(OlderAt) * Cardinality(RecentAt)

Stable == [trend |-> "stable", change |-> Num(0, 1)]

\* C5: calculateTrend returns {stable, 0} for every history whose older window
\* is empty (every history of length 0 to 3) and for every history whose
\* older-window mean is 0, never a direction or a non-finite magnitude.
C5_DegenerateIsStable ==
    (trendPc = "done" /\ (OlderAt = {} \/ TotalAt(OlderAt) = 0)) => trendResult = Stable

\* C6: for every history of non-negative values the result is stable whenever
\* |percentChange| < 2, its magnitude is non-negative and is 0 exactly when the
\* direction is stable; otherwise the direction is up for a positive and down
\* for a negative percentChange, with magnitude |percentChange|.
C6_TrendFollowsPercentChange ==
    trendPc = "done" =>
        /\ trendResult.change.k # "nan"
        /\ trendResult.change.n >= 0
        /\ (trendResult.change = Num(0, 1)) <=> (trendResult.trend = "stable")
        /\ PercentDen > 0 =>
              IF Abs(PercentNum) < 2 * PercentDen
                THEN trendResult = Stable
                ELSE /\ trendResult.trend = (IF PercentNum > 0 THEN "up" ELSE "down")
                     /\ trendResult.change = Num(Abs(PercentNum), PercentDen)

\* what C6 says, kept to the histories with a positive older-window mean and
\* those of fewer than 2 points
TrendFollowsPercentChangeWhereDefined ==
    (trendPc = "done" /\ (PercentDen > 0 \/ Len(trendHistory) < 2)) =>
        /\ trendResult.change.k = "fin"
        /\ trendResult.change.n >= 0
        /\ (trendResult.change = Num(0, 1)) <=> (trendResult.trend = "stable")
        /\ PercentDen > 0 =>
              IF Abs(PercentNum) < 2 * PercentDen
                THEN trendResult = Stable
                ELSE /\ trendResult.trend = (IF PercentNum > 0 THEN "up" ELSE "down")
                     /\ trendResult.change = Num(Abs(PercentNum), PercentDen)

----------------------------------------------------------------------------
\* Claims about getIndicatorStatus and the indicators' status (SpecStatus)

\* the threshold table, value in hundredths
TableStatus(name, v) ==
    CASE name = "NDVI" ->
            (CASE v >= 60 -> "good" [] v >= 40 /\ v < 60 -> "warning" [] v < 40 -> "poor")
      [] name = "Soil Moisture" ->
            (CASE v >= 3000 /\ v <= 5000 -> "good"
               [] (v >= 2000 /\ v < 3000) \/ (v > 5000 /\ v <= 6000) -> "warning"
               [] v < 2000 \/ v > 6000 -> "poor")
      [] name = "Temperature" ->
            (CASE v >= 1500 /\ v <= 2500 -> "good"
               [] (v >= 1000 /\ v < 1500) \/ (v > 2500 /\ v <= 3000) -> "warning"
               [] v < 1000 \/ v > 3000 -> "poor")
      [] OTHER -> "good"

\* C7: getIndicatorStatus returns the status of the threshold table for every
\* name and value, and the status of every generated indicator is that of its
\* name and current value, whatever its history.
C7_StatusFromTable ==
    /\ statusPc = "done" => statusResult = TableStatus(statusName, statusValue)
    /\ \A i \in 1..Len(indicators) :
          /\ indicators[i].status = TableStatus(indicators[i].name, indicators[i].current)
          /\ indicators[i].status = getIndicatorStatus(indicators[i].name, indicators[i].current)

\* C7's case: a rendered indicator whose newest history value falls in another
\* row of the table than its current value
C7_Witness ==
    /\ period # "10"
    /\ \E i \in 1..Len(indicators) :
          LET h == indicators[i].history
          IN  /\ indicators[i].status = "good"
              /\ TableStatus(indicators[i].name, h[Len(h)].value) = "warning"

----------------------------------------------------------------------------
\* Claims about generateHistoricalData (SpecHistory)

\* C8: for days in {7, 10, 14, 30} and every baseline and variance, the history
\* has exactly days samples, oldest first and ending today, the dates stepping
\* by exactly one calendar day, and no value is negative.
C8_OneSampleADay ==
    (genPc = "done" /\ genDays \in {7, 10, 14, 30}) =>
        /\ Len(genData) = genDays
        /\ \A i \in 1..(Len(genData) - 1) : genData[i + 1].date = genData[i].date + 1
        /\ genData[Len(genData)].date \in {today.day, IsoDate(zone, today.day, today.hour)}
        /\ \A i \in 1..Len(genData) : genData[i].value >= 0

\* what C8 says of the length and the values, without the dates
HistoryLengthAndFloor ==
    genPc = "done" =>
        /\ Len(genData) = genDays
        /\ \A i \in 1..Len(genData) : genData[i].value >= 0

====
